---- MODULE Spec2Model ----
(***************************************************************************)
(* Word search generator (src/wordsearch.py): generate_wordsearch and the  *)
(* recursive backtracking search it drives, as a state machine.            *)
(*                                                                         *)
(* The recursion of backtrack_place_words is an explicit stack of frames.  *)
(* random.Random is a library object: its stream is modelled as an oracle. *)
(* rng.shuffle(placements) fixes an arbitrary order of the candidates; the *)
(* order is revealed one element at a time, when the for loop takes its    *)
(* next candidate (choosing the next candidate among the untried ones is   *)
(* choosing the permutation).  A Random built from a seed yields the same  *)
(* stream every time it is built from that seed: the stream revealed so    *)
(* far is kept in `stream` when a later call is going to read it again.    *)
(***************************************************************************)
EXTENDS Integers, Sequences, FiniteSets, TLC

\* ---------------------------------------------------------------- bounds
MaxSize == 2        \* grid sizes 0..MaxSize
MaxWords == 3       \* input lists of at most MaxWords words
MaxWordLen == 3     \* raw input words of at most MaxWordLen characters
NumLetters == 2     \* the fill alphabet is cut to its first NumLetters letters
MaxFreeFill == 4    \* fill letters are drawn freely for MaxFreeFill cells, then repeat

\* ------------------------------------------------------------- constants
EMPTY == "."

DIRECTIONS_8 ==
    << <<0, 1>>, <<0, -1>>, <<1, 0>>, <<-1, 0>>,
       <<1, 1>>, <<1, -1>>, <<-1, 1>>, <<-1, -1>> >>

DIRECTIONS_4 == << <<0, 1>>, <<0, -1>>, <<1, 0>>, <<-1, 0>> >>

UpperCase == << "A", "B", "C", "D", "E", "F", "G", "H", "I", "J", "K", "L", "M",
                "N", "O", "P", "Q", "R", "S", "T", "U", "V", "W", "X", "Y", "Z" >>

LowerCase == << "a", "b", "c", "d", "e", "f", "g", "h", "i", "j", "k", "l", "m",
                "n", "o", "p", "q", "r", "s", "t", "u", "v", "w", "x", "y", "z" >>

Min(a, b) == IF a < b THEN a ELSE b

\* string.ascii_uppercase, cut to the first NumLetters letters
ascii_uppercase == { UpperCase[i] : i \in 1..Min(NumLetters, Len(UpperCase)) }

WhiteSpace == { " ", "\t" }

\* ------------------------------------------------------ string functions
\* str.upper() on one character
Upper(ch) ==
    IF \E i \in 1..Len(LowerCase) : LowerCase[i] = ch
    THEN UpperCase[CHOOSE i \in 1..Len(LowerCase) : LowerCase[i] = ch]
    ELSE ch

\* str.strip(): leading and trailing whitespace removed
strip(w) ==
    LET keep == { i \in 1..Len(w) : w[i] \notin WhiteSpace }
    IN  IF keep = {} THEN << >>
        ELSE LET lo == CHOOSE i \in keep : \A j \in keep : i <= j
                 hi == CHOOSE i \in keep : \A j \in keep : j <= i
             IN  SubSeq(w, lo, hi)

upper(w) == [i \in 1..Len(w) |-> Upper(w[i])]

IsNotSpace(ch) == ch # " "

\* str.replace(" ", "")
replace_space(w) == SelectSeq(w, IsNotSpace)

\* w.strip().upper().replace(" ", "")
clean(w) == replace_space(upper(strip(w)))

\* mutant: `if w` for `if w.strip()`
IsNotEmptyString(w) == w # << >>

\* the filter of the comprehension: w.strip() is not empty
IsNotBlank(w) == strip(w) # << >>

\* [w.strip().upper().replace(" ", "") for w in words if w.strip()]
cleaned(ws) ==
    LET kept == SelectSeq(ws, IsNotBlank)
    IN  [i \in 1..Len(kept) |-> clean(kept[i])]

\* insertion of w into a list sorted by descending length, after the
\* entries that are at least as long (list.sort is stable)
RECURSIVE InsertByLen(_, _)
InsertByLen(sorted, w) ==
    IF sorted = << >> THEN << w >>
    ELSE IF Len(Head(sorted)) >= Len(w)
         THEN << Head(sorted) >> \o InsertByLen(Tail(sorted), w)
         ELSE << w >> \o sorted

\* mutant: reverse=True is left out
RECURSIVE sort_by_len_ascending(_)
sort_by_len_ascending(ws) ==
    IF ws = << >> THEN << >>
    ELSE LET rest == sort_by_len_ascending(SubSeq(ws, 1, Len(ws) - 1))
             w == ws[Len(ws)]
             NotLonger(x) == Len(x) <= Len(w)
             Longer(x) == Len(x) > Len(w)
         IN  SelectSeq(rest, NotLonger) \o << w >> \o SelectSeq(rest, Longer)

\* cleaned.sort(key=len, reverse=True)
RECURSIVE sort_by_len(_)
sort_by_len(ws) ==
    IF ws = << >> THEN << >>
    ELSE InsertByLen(sort_by_len(SubSeq(ws, 1, Len(ws) - 1)), ws[Len(ws)])

\* ------------------------------------------------------------------ grid
\* mutant: one row and one column too many
make_empty_grid_off_by_one(size) ==
    [r \in 0..size |-> [c \in 0..size |-> EMPTY]]

make_empty_grid(size) ==
    [r \in 0..(size - 1) |-> [c \in 0..(size - 1) |-> EMPTY]]

\* len(grid)
GridLen(g) == Cardinality(DOMAIN g)

in_bounds(size, r, c) == 0 <= r /\ r < size /\ 0 <= c /\ c < size

\* mutant: the conflict with the letters already in the grid is not checked
can_place_word_unchecked(g, word, r, c, dr, dc) ==
    \A i \in 0..(Len(word) - 1) : in_bounds(GridLen(g), r + i * dr, c + i * dc)

\* mutant: only the start cell is checked against the bounds
can_place_word_start_only(g, word, r, c, dr, dc) ==
    LET size == GridLen(g)
    IN  \A i \in 0..(Len(word) - 1) :
            LET rr == r + i * dr
                cc == c + i * dc
            IN  /\ i = 0 => in_bounds(size, rr, cc)
                /\ in_bounds(size, rr, cc) =>
                       (g[rr][cc] = EMPTY \/ g[rr][cc] = word[i + 1])

can_place_word(g, word, r, c, dr, dc) ==
    LET size == GridLen(g)
    IN  \A i \in 0..(Len(word) - 1) :
            LET rr == r + i * dr
                cc == c + i * dc
            IN  /\ in_bounds(size, rr, cc)
                /\ (g[rr][cc] = EMPTY \/ g[rr][cc] = word[i + 1])

\* the loop of place_word from letter i on: [grid, changed]
RECURSIVE PlaceFrom(_, _, _, _, _, _, _, _)
PlaceFrom(g, word, r, c, dr, dc, i, changed) ==
    IF i >= Len(word) THEN [grid |-> g, changed |-> changed]
    ELSE LET rr == r + i * dr
             cc == c + i * dc
         IN  IF g[rr][cc] = EMPTY
             THEN PlaceFrom([g EXCEPT ![rr][cc] = word[i + 1]], word, r, c, dr, dc,
                            i + 1, Append(changed, <<rr, cc>>))
             ELSE PlaceFrom(g, word, r, c, dr, dc, i + 1, changed)

\* mutant: every coordinate of the span is recorded, written or not
place_word_records_span(g, word, r, c, dr, dc) ==
    [grid |-> PlaceFrom(g, word, r, c, dr, dc, 0, << >>).grid,
     changed |-> [i \in 1..Len(word) |-> << r + (i - 1) * dr, c + (i - 1) * dc >>]]

\* mutant: the loop starts at the second letter
place_word_from_second(g, word, r, c, dr, dc) ==
    PlaceFrom(g, word, r, c, dr, dc, 1, << >>)

place_word(g, word, r, c, dr, dc) == PlaceFrom(g, word, r, c, dr, dc, 0, << >>)

\* mutant: the first coordinate of the change set is left as it is
RECURSIVE undo_changes_but_first(_, _)
undo_changes_but_first(g, changed) ==
    IF Len(changed) <= 1 THEN g
    ELSE undo_changes_but_first(
             [g EXCEPT ![changed[Len(changed)][1]][changed[Len(changed)][2]] = EMPTY],
             SubSeq(changed, 1, Len(changed) - 1))

RECURSIVE undo_changes(_, _)
undo_changes(g, changed) ==
    IF changed = << >> THEN g
    ELSE undo_changes([g EXCEPT ![Head(changed)[1]][Head(changed)[2]] = EMPTY],
                      Tail(changed))

\* mutant: the loop over the rows stops one row early
LoopTriples_short(size, directions) ==
    LET nd == Len(directions)
    IN  [k \in 1..((size - 1) * size * nd) |->
            << (k - 1) \div (size * nd),
               ((k - 1) \div nd) % size,
               directions[((k - 1) % nd) + 1] >>]

\* the triples (r, c, direction) in the order of the three nested loops
LoopTriples(size, directions) ==
    LET nd == Len(directions)
    IN  [k \in 1..(size * size * nd) |->
            << (k - 1) \div (size * nd),
               ((k - 1) \div nd) % size,
               directions[((k - 1) % nd) + 1] >>]

\* mutant: the zero direction is not skipped
all_possible_placements_with_zero(g, word, directions) ==
    LET Fits(p) == can_place_word(g, word, p[1], p[2], p[3][1], p[3][2])
    IN  SelectSeq(LoopTriples(GridLen(g), directions), Fits)

all_possible_placements(g, word, directions) ==
    LET Fits(p) == /\ ~(p[3][1] = 0 /\ p[3][2] = 0)
                   /\ can_place_word(g, word, p[1], p[2], p[3][1], p[3][2])
    IN  SelectSeq(LoopTriples(GridLen(g), directions), Fits)

\* the cells of fill_empty_with_random_letters' loops that are EMPTY, in order
EmptyCells(g) ==
    LET size == GridLen(g)
        cells == [k \in 1..(size * size) |-> << (k - 1) \div size, (k - 1) % size >>]
        IsEmpty(rc) == g[rc[1]][rc[2]] = EMPTY
    IN  SelectSeq(cells, IsEmpty)

\* mutant: the cells are written whether they are EMPTY or not
fill_overwriting(g, letters) ==
    LET cells == EmptyCells(g)
    IN  [r \in DOMAIN g |-> [c \in DOMAIN g[r] |->
            IF g[r][c] = EMPTY
            THEN letters[CHOOSE k \in 1..Len(cells) : cells[k] = <<r, c>>]
            ELSE IF Len(letters) > 0 THEN letters[1] ELSE g[r][c]]]

\* fill_empty_with_random_letters, given the letters rng.choice returns
fill_empty_with_random_letters(g, letters) ==
    LET cells == EmptyCells(g)
    IN  [r \in DOMAIN g |-> [c \in DOMAIN g[r] |->
            IF g[r][c] = EMPTY
            THEN letters[CHOOSE k \in 1..Len(cells) : cells[k] = <<r, c>>]
            ELSE g[r][c]]]

\* the letters rng.choice returns for k empty cells: every sequence of at
\* most MaxFreeFill letters, longer ones of period MaxFreeFill
FillChoices(k) ==
    LET m == Min(k, MaxFreeFill)
    IN  { [i \in 1..k |-> base[((i - 1) % m) + 1]] : base \in [1..m -> ascii_uppercase] }

\* mutant: the two direction lists are swapped
Directions_swapped(allow) == IF allow THEN DIRECTIONS_4 ELSE DIRECTIONS_8

Directions(allow) == IF allow THEN DIRECTIONS_8 ELSE DIRECTIONS_4


\* ---------------------------------------------------------------- inputs
\* raw input words: lists of characters, arbitrary case and whitespace
RawUniverse ==
    { << " " >>, << "a" >>, << "b", "1" >>, << "1", "1" >>, << "b", " ", "a" >>,
      << "a", "b", "a" >>, << " ", "b", "a", "b" >>,
      << "a", "\t", "b", " ", "a" >> }

RawWords == { w \in RawUniverse : Len(w) <= MaxWordLen }

\* one more word, for the lists of fewer than MaxWords words
ExtraWords == { w \in { << "1" >> } : Len(w) <= MaxWordLen }

\* the lists of at most n words of W
RECURSIVE ListsOver(_, _)
ListsOver(W, n) ==
    IF n = 0 THEN { << >> }
    ELSE LET shorter == ListsOver(W, n - 1)
         IN  shorter \cup { Append(l, w) : l \in { x \in shorter : Len(x) = n - 1 },
                                          w \in W }

WordLists ==
    ListsOver(RawWords, MaxWords) \cup ListsOver(RawWords \cup ExtraWords, MaxWords - 1)

\* the lists of RawWords in which no word is repeated
DistinctLists ==
    { l \in ListsOver(RawWords, MaxWords) : \A i, j \in 1..Len(l) : l[i] = l[j] => i = j }

Sizes == 0..MaxSize

\* Optional[int]: << >> is None
None == << >>
Seeds == { None, << 42 >> }

\* ----------------------------------------------------------------- state
VARIABLES
    in_words,         \* generate_wordsearch's argument words
    size,             \* its argument size
    allow_diagonals,  \* its argument allow_diagonals
    seed,             \* its argument seed
    pc,               \* "start", "search", "done" (returned), "error" (raised);
                      \* "direct": backtrack_place_words called on its own
    words,            \* the local cleaned, after the sort
    directions,       \* the local directions
    grid,             \* the local grid
    stack,            \* the frames of backtrack_place_words, innermost last
    ret,              \* the value a call of backtrack_place_words just returned
    result,           \* << >>, or << the grid generate_wordsearch returned >>
    rng,              \* the Random object: seeded or not, draws made so far
    stream,           \* the draws the seed's stream has revealed so far
    placed,           \* history: the placements applied and not undone, by word
    twin,             \* whether the caller makes the same call a second time
    first             \* << >>, or << the outcome of the first call >>

args == << in_words, size, allow_diagonals, seed >>
locals == << words, directions, grid, stack, ret, placed >>
vars == << in_words, size, allow_diagonals, seed, pc, words, directions, grid,
           stack, ret, result, rng, stream, placed, twin, first >>

\* ------------------------------------------------------------------- rng
\* mutant: the seed is not handed to Random
NewRandom_unseeded(s) == [seeded |-> FALSE, pos |-> 0]

\* random.Random(seed): seeded from the seed, or from the system's entropy
NewRandom(s) == [seeded |-> s # None, pos |-> 0]

\* the stream is followed only where a second call reads it again
Replayed == twin /\ rng.seeded

Pick(i) == [kind |-> "shuffle", i |-> i, letters |-> << >>]
Choice(letters) == [kind |-> "choice", i |-> 0, letters |-> letters]

\* the rng yields the draw d
Draw(d) ==
    IF Replayed
    THEN /\ rng.pos < Len(stream) => stream[rng.pos + 1] = d
         /\ stream' = IF rng.pos < Len(stream) THEN stream ELSE Append(stream, d)
         /\ rng' = [rng EXCEPT !.pos = @ + 1]
    ELSE UNCHANGED << rng, stream >>

\* ---------------------------------------------------------------- frames
Top == stack[Len(stack)]

NewFrame(idx, g) ==
    [idx |-> idx, at |-> "entry", placements |-> << >>, tried |-> {},
     cur |-> 0, changed |-> << >>, entry |-> g]

\* mutant: the loop gives up after its first candidate
Untried_first_only(f) == IF f.tried = {} THEN 1..Len(f.placements) ELSE {}

\* the candidates the for loop has not reached yet
Untried(f) == (1..Len(f.placements)) \ f.tried

SetTop(f) == [stack EXCEPT ![Len(stack)] = f]

Pop == SubSeq(stack, 1, Len(stack) - 1)

\* backtrack_place_words is running: under generate_wordsearch, or called directly
InSearch == pc \in { "search", "direct" }

\* mutant: the search stops one word early
AllPlaced_early(idx) == idx >= Len(words) - 1

\* idx == len(words)
AllPlaced(idx) == idx = Len(words)

\* ------------------------------------------------------------------ Init
\* one call of generate_wordsearch.  The stream of a single call is read once:
\* any stream a seed yields is one the unseeded call can draw.
Init ==
    /\ in_words \in WordLists
    /\ size \in Sizes
    /\ allow_diagonals \in BOOLEAN
    /\ seed = None
    /\ pc = "start"
    /\ words = << >>
    /\ directions = << >>
    /\ grid = << >>
    /\ stack = << >>
    /\ ret = "none"
    /\ result = << >>
    /\ rng = NewRandom(None)
    /\ stream = << >>
    /\ placed = << >>
    /\ twin = FALSE
    /\ first = << >>

\* --------------------------------------------------------------- actions
\* generate_wordsearch up to its call of backtrack_place_words(grid, cleaned, 0, ...)
Generate ==
    /\ pc = "start"
    /\ pc' = "search"
    /\ rng' = NewRandom(seed)
    /\ words' = sort_by_len(cleaned(in_words))
    /\ grid' = make_empty_grid(size)
    /\ directions' = Directions(allow_diagonals)
    /\ stack' = << NewFrame(0, grid') >>
    /\ ret' = "none"
    /\ placed' = << >>
    /\ UNCHANGED << args, result, stream, twin, first >>

\* if idx == len(words): return True
BaseCase ==
    /\ InSearch /\ stack # << >> /\ Top.at = "entry"
    /\ AllPlaced(Top.idx)
    /\ stack' = Pop
    /\ ret' = "true"
    /\ UNCHANGED << args, pc, words, directions, grid, result, rng, stream, placed,
                    twin, first >>

\* placements = all_possible_placements(...); rng.shuffle(placements)
Enumerate ==
    /\ InSearch /\ stack # << >> /\ Top.at = "entry"
    /\ ~AllPlaced(Top.idx)
    /\ stack' = SetTop([Top EXCEPT
            !.at = "loop",
            !.placements = all_possible_placements(grid, words[Top.idx + 1], directions)])
    /\ UNCHANGED << args, pc, words, directions, grid, ret, result, rng, stream,
                    placed, twin, first >>

\* the for loop takes its next candidate: place_word, then the recursive call
TryNext ==
    /\ InSearch /\ stack # << >> /\ Top.at = "loop"
    /\ \E i \in Untried(Top) :
          LET p == Top.placements[i]
              done == place_word(grid, words[Top.idx + 1], p[1], p[2], p[3][1], p[3][2])
          IN  /\ Draw(Pick(i))
              /\ grid' = done.grid
              /\ stack' = Append(SetTop([Top EXCEPT !.at = "call", !.cur = i,
                                                    !.changed = done.changed]),
                                 NewFrame(Top.idx + 1, done.grid))
              /\ placed' = Append(placed, [idx |-> Top.idx, r |-> p[1], c |-> p[2],
                                           d |-> p[3], changed |-> done.changed])
    /\ UNCHANGED << args, pc, words, directions, ret, result, twin, first >>

\* the for loop is over: return False
Exhausted ==
    /\ InSearch /\ stack # << >> /\ Top.at = "loop"
    /\ Untried(Top) = {}
    /\ stack' = Pop
    /\ ret' = "false"
    /\ UNCHANGED << args, pc, words, directions, grid, result, rng, stream, placed,
                    twin, first >>

\* mutant: the placement is undone before the call returns True
Succeed_after_undo ==
    /\ InSearch /\ stack # << >> /\ Top.at = "call"
    /\ ret = "true"
    /\ grid' = undo_changes(grid, Top.changed)
    /\ stack' = Pop
    /\ UNCHANGED << args, pc, words, directions, ret, result, rng, stream,
                    placed, twin, first >>

\* the recursive call returned True: return True
Succeed ==
    /\ InSearch /\ stack # << >> /\ Top.at = "call"
    /\ ret = "true"
    /\ stack' = Pop
    /\ UNCHANGED << args, pc, words, directions, grid, ret, result, rng, stream,
                    placed, twin, first >>

\* mutant: the loop moves on without undo_changes
Undo_nothing_undone ==
    /\ InSearch /\ stack # << >> /\ Top.at = "call"
    /\ ret = "false"
    /\ stack' = SetTop([Top EXCEPT !.at = "loop", !.tried = @ \cup {Top.cur},
                                   !.cur = 0, !.changed = << >>])
    /\ ret' = "none"
    /\ placed' = SubSeq(placed, 1, Len(placed) - 1)
    /\ UNCHANGED << args, pc, words, directions, grid, result, rng, stream, twin,
                    first >>

\* mutant: the loop does not move on to its next candidate
Undo_same_candidate ==
    /\ InSearch /\ stack # << >> /\ Top.at = "call"
    /\ ret = "false"
    /\ grid' = undo_changes(grid, Top.changed)
    /\ stack' = SetTop([Top EXCEPT !.at = "loop", !.cur = 0, !.changed = << >>])
    /\ ret' = "none"
    /\ placed' = SubSeq(placed, 1, Len(placed) - 1)
    /\ UNCHANGED << args, pc, words, directions, result, rng, stream, twin, first >>

\* the recursive call returned False: undo_changes(grid, changed)
Undo ==
    /\ InSearch /\ stack # << >> /\ Top.at = "call"
    /\ ret = "false"
    /\ grid' = undo_changes(grid, Top.changed)
    /\ stack' = SetTop([Top EXCEPT !.at = "loop", !.tried = @ \cup {Top.cur},
                                   !.cur = 0, !.changed = << >>])
    /\ ret' = "none"
    /\ placed' = SubSeq(placed, 1, Len(placed) - 1)
    /\ UNCHANGED << args, pc, words, directions, result, rng, stream, twin, first >>

\* success: fill_empty_with_random_letters(grid, rng); return grid
Fill ==
    /\ pc = "search" /\ stack = << >>
    /\ ret = "true"
    /\ \E letters \in FillChoices(Len(EmptyCells(grid))) :
          /\ Draw(Choice(letters))
          /\ grid' = fill_empty_with_random_letters(grid, letters)
    /\ result' = << grid' >>
    /\ pc' = "done"
    /\ UNCHANGED << args, words, directions, stack, ret, placed, twin, first >>

\* not success: raise ValueError
Raise ==
    /\ pc = "search" /\ stack = << >>
    /\ ret = "false"
    /\ pc' = "error"
    /\ UNCHANGED << args, words, directions, grid, stack, ret, result, rng, stream,
                    placed, twin, first >>

\* the caller makes the same call again, with the same arguments
CallAgain ==
    /\ twin /\ first = << >>
    /\ pc \in { "done", "error" }
    /\ first' = << [raised |-> pc = "error", result |-> result, draws |-> rng.pos] >>
    /\ pc' = "start"
    /\ words' = << >>
    /\ directions' = << >>
    /\ grid' = << >>
    /\ stack' = << >>
    /\ ret' = "none"
    /\ result' = << >>
    /\ placed' = << >>
    /\ UNCHANGED << args, rng, stream, twin >>

Next ==
    \/ Generate
    \/ BaseCase
    \/ Enumerate
    \/ TryNext
    \/ Exhausted
    \/ Succeed
    \/ Undo
    \/ Fill
    \/ Raise

Spec == Init /\ [][Next]_vars

\* one call of generate_wordsearch for a list of fewer than MaxWords words
ShortInit ==
    /\ in_words \in ListsOver(RawWords \cup ExtraWords, MaxWords - 1)
    /\ size \in Sizes
    /\ allow_diagonals \in BOOLEAN
    /\ seed = None
    /\ pc = "start"
    /\ words = << >>
    /\ directions = << >>
    /\ grid = << >>
    /\ stack = << >>
    /\ ret = "none"
    /\ result = << >>
    /\ rng = NewRandom(None)
    /\ stream = << >>
    /\ placed = << >>
    /\ twin = FALSE
    /\ first = << >>

\* two calls of generate_wordsearch with the same arguments, one after the other
TwinInit ==
    /\ in_words \in DistinctLists
    /\ size \in Sizes
    /\ allow_diagonals \in BOOLEAN
    /\ seed \in Seeds
    /\ pc = "start"
    /\ words = << >>
    /\ directions = << >>
    /\ grid = << >>
    /\ stack = << >>
    /\ ret = "none"
    /\ result = << >>
    /\ rng = NewRandom(None)
    /\ stream = << >>
    /\ placed = << >>
    /\ twin = TRUE
    /\ first = << >>

TwinNext ==
    \/ Generate
    \/ BaseCase
    \/ Enumerate
    \/ TryNext
    \/ Exhausted
    \/ Succeed
    \/ Undo
    \/ Fill
    \/ Raise
    \/ CallAgain

TwinSpec == TwinInit /\ [][TwinNext]_vars

\* the call generate_wordsearch(["CAT", "DOG"], size=5, allow_diagonals=False,
\* seed=1)
CatDog == << << "C", "A", "T" >>, << "D", "O", "G" >> >>

ScenarioInit ==
    /\ in_words = CatDog
    /\ size = 5
    /\ allow_diagonals = FALSE
    /\ seed = << 1 >>
    /\ pc = "start"
    /\ words = << >>
    /\ directions = << >>
    /\ grid = << >>
    /\ stack = << >>
    /\ ret = "none"
    /\ result = << >>
    /\ rng = NewRandom(None)
    /\ stream = << >>
    /\ placed = << >>
    /\ twin = FALSE
    /\ first = << >>

\* the calls of Init and the scenario's call
ScenarioSpec == (Init \/ ScenarioInit) /\ [][Next]_vars

\* backtrack_place_words(grid, words, 0, directions, rng) called on any grid,
\* any word list and any direction list
GridChars == { EMPTY, "A", "B" }

ArbitraryGrids(n) == [0..(n - 1) -> [0..(n - 1) -> GridChars]]

NormalWords == { clean(w) : w \in { x \in RawWords : IsNotBlank(x) } }

\* a direction list of the caller's own, the zero vector in it
OwnDirections == << <<0, 0>>, <<1, 1>>, <<0, -1>> >>

\* the word lists and direction lists of the direct calls: a list of two words
\* is searched along OwnDirections only
DirectCalls ==
    { [words |-> ws, directions |-> ds] :
        ws \in { << >> } \cup { << w >> : w \in NormalWords },
        ds \in { DIRECTIONS_8, DIRECTIONS_4, OwnDirections } }
    \cup
    { [words |-> << v, w >>, directions |-> OwnDirections] :
        v \in NormalWords, w \in NormalWords }

DirectInit ==
    /\ in_words = << >>
    /\ size \in Sizes
    /\ allow_diagonals = TRUE
    /\ seed = None
    /\ pc = "direct"
    /\ \E call \in DirectCalls : words = call.words /\ directions = call.directions
    /\ grid \in ArbitraryGrids(size)
    /\ stack = << NewFrame(0, grid) >>
    /\ ret = "none"
    /\ result = << >>
    /\ rng = NewRandom(None)
    /\ stream = << >>
    /\ placed = << >>
    /\ twin = FALSE
    /\ first = << >>

\* calls of generate_wordsearch and direct calls of backtrack_place_words
AnyInit == Init \/ DirectInit

AnySpec == AnyInit /\ [][Next]_vars

TypeOK ==
    /\ pc \in { "start", "search", "direct", "done", "error" }
    /\ ret \in { "none", "true", "false" }
    /\ Len(result) <= 1


\* direct calls of backtrack_place_words only
DirectNext ==
    \/ BaseCase
    \/ Enumerate
    \/ TryNext
    \/ Exhausted
    \/ Succeed
    \/ Undo

DirectSpec == DirectInit /\ [][DirectNext]_vars

\* the search runs on without interruption: a step of backtrack_place_words
\* that can be taken is taken
LiveSpec == ShortInit /\ [][Next]_vars /\ WF_vars(DirectNext)

\* ================================================================ claims
\* the vocabulary of the statements, independent of the definitions above
AxisDirections == { <<0, 1>>, <<0, -1>>, <<1, 0>>, <<-1, 0>> }

EightDirections == { d \in (-1..1) \X (-1..1) : d # <<0, 0>> }

Permitted == IF allow_diagonals THEN EightDirections ELSE AxisDirections

Cells(n) == (0..(n - 1)) \X (0..(n - 1))

SpanCell(r, c, d, i) == << r + i * d[1], c + i * d[2] >>

\* the grid g of size n reads the word w from (r, c) along d
Reads(g, n, w, r, c, d) ==
    \A i \in 0..(Len(w) - 1) :
        LET rc == SpanCell(r, c, d, i)
        IN  rc \in Cells(n) /\ g[rc[1]][rc[2]] = w[i + 1]

\* the letters i of the applied placement q that lie on the cell rc
LettersOn(q, rc) ==
    { i \in 0..(Len(words[q.idx + 1]) - 1) : SpanCell(q.r, q.c, q.d, i) = rc }

\* the cell rc lies in the span of no applied placement
Uncovered(rc) == \A j \in 1..Len(placed) : LettersOn(placed[j], rc) = {}

\* the uppercase letters
AllUpperCase == { UpperCase[i] : i \in 1..Len(UpperCase) }

SearchSucceeded == pc = "search" /\ stack = << >> /\ ret = "true"

\* ---------------------------------------------------------------- C1
\* C1: every word of the normalized list can be read in the returned grid,
\* from some start cell along some permitted direction, all cells in bounds.
PlacementValidity ==
    pc = "done" =>
        \A k \in 1..Len(words) :
            \E r \in 0..(size - 1), c \in 0..(size - 1), d \in Permitted :
                Reads(result[1], size, words[k], r, c, d)

\* a grid is returned for three words, two-letter words among them
PlacementValidityWitness ==
    /\ pc = "done"
    /\ Len(words) = 3
    /\ Len(words[1]) = 2 /\ Len(words[2]) = 2
    /\ words[1] # words[2]

\* ---------------------------------------------------------------- C2
Demands(w, r, c, d) == { << SpanCell(r, c, d, i), w[i + 1] >> : i \in 0..(Len(w) - 1) }

Consistent(D) == \A x \in D, y \in D : x[1] = y[1] => x[2] = y[2]

\* the words from the k-th on can each be given a placement, in bounds and
\* consistent with the demands D of the words before
RECURSIVE Assignable(_, _)
Assignable(D, k) ==
    \/ k > Len(words)
    \/ \E r \in 0..(size - 1), c \in 0..(size - 1), d \in Permitted :
          LET E == D \cup Demands(words[k], r, c, d)
          IN  /\ \A x \in E : x[1] \in Cells(size)
              /\ Consistent(E)
              /\ Assignable(E, k + 1)

Solvable == Assignable({}, 1)

\* C2: generate_wordsearch raises if and only if no assignment of one
\* placement per word is in bounds and consistent on shared cells.
RaisesIffUnsolvable ==
    pc \in { "done", "error" } => (pc = "error" <=> ~Solvable)

\* the error for words none of which is longer than the grid: no assignment
\* exists
RaisesIffUnsolvableWitness ==
    /\ pc = "error"
    /\ Len(words) = 2
    /\ \A k \in 1..Len(words) : Len(words[k]) <= size
    /\ ~Solvable

\* ---------------------------------------------------------------- C3
\* C3: in a returned grid a cell covered by applied placements holds the
\* letter each covering word demands there (so fill has not overwritten it),
\* and a cell covered by none holds a letter of the fill alphabet.
NoCorruption ==
    pc = "done" =>
        \A rc \in Cells(size) :
            LET cell == result[1][rc[1]][rc[2]]
            IN  IF Uncovered(rc)
                THEN cell \in ascii_uppercase
                ELSE \A j \in 1..Len(placed) :
                         \A i \in LettersOn(placed[j], rc) :
                             cell = words[placed[j].idx + 1][i + 1]

\* a returned grid with a cell two placements share and a cell none covers
NoCorruptionWitness ==
    /\ pc = "done"
    /\ \E rc \in Cells(size) :
          \E j1, j2 \in 1..Len(placed) :
              /\ j1 # j2
              /\ LettersOn(placed[j1], rc) # {}
              /\ LettersOn(placed[j2], rc) # {}
    /\ \E rc \in Cells(size) : Uncovered(rc)

\* ---------------------------------------------------------------- C4
SecondCall == first # << >> /\ seed # None

\* C4: the second call with the same seed and arguments finds in the stream
\* the draws of the first call, makes as many, and ends as the first did:
\* both raise, or both return the same grid.
Determinism ==
    SecondCall =>
        /\ pc \in { "done", "error" } =>
              /\ first[1].raised = (pc = "error")
              /\ first[1].result = result
              /\ first[1].draws = rng.pos
        /\ (InSearch /\ stack # << >> /\ Top.at = "loop" /\ Untried(Top) # {}) =>
              /\ rng.pos < Len(stream)
              /\ stream[rng.pos + 1].kind = "shuffle"
              /\ stream[rng.pos + 1].i \in Untried(Top)
        /\ SearchSucceeded =>
              /\ rng.pos < Len(stream)
              /\ stream[rng.pos + 1].kind = "choice"
              /\ Len(stream[rng.pos + 1].letters) = Len(EmptyCells(grid))

\* the second seeded call has returned a grid, after a search that went back
\* on a candidate
DeterminismWitness ==
    /\ SecondCall
    /\ pc = "done"
    /\ rng.pos = Len(stream)
    /\ Cardinality({ j \in 1..Len(stream) : stream[j].kind = "shuffle" }) > Len(words)

\* ---------------------------------------------------------------- C5
\* C5: a call that returns failure leaves the grid as it was at its entry;
\* when generate_wordsearch raises, every cell is EMPTY and no grid is returned.
FailureRestoresGrid ==
    /\ (InSearch /\ stack # << >> /\ Top.at = "loop" /\ Untried(Top) = {}) =>
           grid = Top.entry
    /\ pc = "error" =>
           /\ result = << >>
           /\ \A rc \in Cells(size) : grid[rc[1]][rc[2]] = EMPTY

\* the outermost call under generate_wordsearch is about to return failure,
\* after it placed and undid every candidate
FailureRestoresGridWitness ==
    /\ pc = "search" /\ stack # << >>
    /\ Top.at = "loop" /\ Untried(Top) = {}
    /\ Top.idx = 0
    /\ Cardinality(Top.tried) >= 4

\* ---------------------------------------------------------------- C6
\* C6: when the search reports success, and in the grid returned after it,
\* each word index has exactly one applied placement that was not undone,
\* and the grid reads the word there.
TotalityOfPlacement ==
    (SearchSucceeded \/ pc = "done") =>
        /\ Len(placed) = Len(words)
        /\ \A k \in 0..(Len(words) - 1) :
              /\ Cardinality({ j \in 1..Len(placed) : placed[j].idx = k }) = 1
              /\ \A j \in 1..Len(placed) :
                    placed[j].idx = k =>
                        Reads(grid, size, words[k + 1], placed[j].r, placed[j].c, placed[j].d)

\* a grid is returned for a list in which a word occurs twice
TotalityOfPlacementWitness ==
    /\ pc = "done"
    /\ Len(words) = 3
    /\ words[2] = words[3]
    /\ Len(words[2]) = 2

\* ---------------------------------------------------------------- C7
LettersOnly == \A k \in 1..Len(words) : \A i \in 1..Len(words[k]) : words[k][i] \in AllUpperCase

\* C7: the returned grid has size rows of size cells, none of them EMPTY;
\* when the words are made of letters, every cell is an uppercase letter.
OutputShape ==
    pc = "done" =>
        /\ Len(result) = 1
        /\ DOMAIN result[1] = 0..(size - 1)
        /\ \A r \in 0..(size - 1) :
              /\ DOMAIN result[1][r] = 0..(size - 1)
              /\ \A c \in 0..(size - 1) :
                    /\ result[1][r][c] # EMPTY
                    /\ LettersOnly => result[1][r][c] \in AllUpperCase

\* a 2 x 2 grid is returned for words made of letters, fill letters in it
OutputShapeWitness ==
    /\ pc = "done"
    /\ size = 2
    /\ Len(words) = 2
    /\ LettersOnly
    /\ \E rc \in Cells(size) : Uncovered(rc)

\* ---------------------------------------------------------------- C8
\* C8: a word longer than the grid size has no candidate, whatever the grid
\* holds and whatever the directions; no grid is returned for a list with
\* such a word.
TooLongNeverPlaced ==
    /\ \A j \in 1..Len(stack) :
          (stack[j].at # "entry" /\ Len(words[stack[j].idx + 1]) > size) =>
              stack[j].placements = << >>
    /\ (pc \in { "done", "error" } /\ \E k \in 1..Len(words) : Len(words[k]) > size) =>
          pc = "error"

\* the candidates of a word longer than the size were enumerated on a grid
\* with letters and empty cells, diagonals among the directions
TooLongNeverPlacedWitness ==
    /\ pc = "direct" /\ stack # << >>
    /\ Top.at = "loop"
    /\ size = 2
    /\ Len(words[Top.idx + 1]) > size
    /\ directions = DIRECTIONS_8
    /\ \E rc \in Cells(size) : grid[rc[1]][rc[2]] = EMPTY
    /\ \E rc \in Cells(size) : grid[rc[1]][rc[2]] = words[Top.idx + 1][1]

\* ---------------------------------------------------------------- C9
\* the starts from which a word as long as the grid fits along the axes
EdgeStarts(n) ==
    { << r, 0, <<0, 1>> >> : r \in 0..(n - 1) } \cup
    { << r, n - 1, <<0, -1>> >> : r \in 0..(n - 1) } \cup
    { << 0, c, <<1, 0>> >> : c \in 0..(n - 1) } \cup
    { << n - 1, c, <<-1, 0>> >> : c \in 0..(n - 1) }

IsEmptyGrid(g, n) == \A rc \in Cells(n) : g[rc[1]][rc[2]] = EMPTY

\* C9: on an empty grid the axis-aligned candidates of a word as long as the
\* grid start at the edge cells it fits from and nowhere else; a list of one
\* such word is always placed.
FullLengthWord ==
    /\ \A j \in 1..Len(stack) :
          LET f == stack[j]
          IN  (f.at # "entry" /\ Len(words[f.idx + 1]) = size /\ IsEmptyGrid(f.entry, size)) =>
                  { f.placements[x] : x \in { y \in 1..Len(f.placements) :
                                               f.placements[y][3] \in AxisDirections } }
                  = EdgeStarts(size)
    /\ (pc \in { "done", "error" } /\ Len(words) = 1 /\ Len(words[1]) = size) =>
          pc = "done"

\* a grid is returned for one word as long as the grid, placed upwards from
\* the last row
FullLengthWordWitness ==
    /\ pc = "done"
    /\ size = 2
    /\ Len(words) = 1
    /\ Len(words[1]) = size
    /\ placed[1].r = size - 1
    /\ placed[1].d = <<-1, 0>>

\* --------------------------------------------------------------- C10
AllBlank == \A k \in 1..Len(in_words) : \A i \in 1..Len(in_words[k]) : in_words[k][i] \in WhiteSpace

\* C10: for an input list that is empty or all blank the call never raises:
\* the search succeeds at index 0 with nothing enumerated and nothing placed,
\* and the grid returned is size x size of fill letters.
EmptyListNeverRaises ==
    (pc \in { "search", "done", "error" } /\ AllBlank) =>
        /\ words = << >>
        /\ pc # "error"
        /\ placed = << >>
        /\ \A j \in 1..Len(stack) : stack[j].idx = 0 /\ stack[j].at = "entry"
        /\ pc = "done" =>
              /\ DOMAIN result[1] = 0..(size - 1)
              /\ \A r \in 0..(size - 1) :
                    /\ DOMAIN result[1][r] = 0..(size - 1)
                    /\ \A c \in 0..(size - 1) : result[1][r][c] \in ascii_uppercase

\* a 2 x 2 grid is returned for a list of blank words
EmptyListNeverRaisesWitness ==
    /\ pc = "done"
    /\ Len(in_words) = 2
    /\ AllBlank
    /\ size = 2

\* --------------------------------------------------------------- C11
IsCatDog == in_words = CatDog /\ size = 5 /\ ~allow_diagonals

\* the cells of the placement q of a word of n letters
Run(q, n) == { SpanCell(q.r, q.c, q.d, i) : i \in 0..(n - 1) }

\* C11: for [CAT, DOG] on the 5 x 5 grid without diagonals the call does not
\* raise; when the search ends 19 cells are EMPTY, and in the returned grid
\* CAT and DOG each read along a row or a column over 3 cells in bounds, the
\* two runs share no cell, and the 19 other cells hold uppercase letters.
CatDogScenario ==
    IsCatDog =>
        /\ pc # "error"
        /\ SearchSucceeded => Len(EmptyCells(grid)) = 19
        /\ pc = "done" =>
              /\ Len(placed) = 2
              /\ words = CatDog
              /\ \A j \in 1..2 :
                    /\ placed[j].idx = j - 1
                    /\ placed[j].d \in AxisDirections
                    /\ Cardinality(Run(placed[j], 3)) = 3
                    /\ Reads(result[1], 5, CatDog[j], placed[j].r, placed[j].c, placed[j].d)
              /\ Run(placed[1], 3) \cap Run(placed[2], 3) = {}
              /\ LET rest == Cells(5) \ (Run(placed[1], 3) \cup Run(placed[2], 3))
                 IN  /\ Cardinality(rest) = 19
                     /\ \A rc \in rest : result[1][rc[1]][rc[2]] \in AllUpperCase

\* the scenario's grid is returned, CAT along a row and DOG along a column
CatDogScenarioWitness ==
    /\ IsCatDog
    /\ pc = "done"
    /\ placed[1].d = <<0, -1>>
    /\ placed[2].d = <<1, 0>>

\* --------------------------------------------------------------- C12
\* a step that applies place_word and enters the recursive call
PlaceStep == InSearch /\ Len(stack') = Len(stack) + 1

\* a step that applies undo_changes
UndoStep == InSearch /\ stack # << >> /\ Top.at = "call" /\ ret = "false" /\ stack' # stack

AsSet(seq) == { seq[i] : i \in 1..Len(seq) }

\* the word w can go from (r, c) along d in the grid g of size n
CanPlace(g, n, w, r, c, d) ==
    \A i \in 0..(Len(w) - 1) :
        LET rc == SpanCell(r, c, d, i)
        IN  rc \in Cells(n) /\ (g[rc[1]][rc[2]] = EMPTY \/ g[rc[1]][rc[2]] = w[i + 1])

\* C12: undo_changes on the change set place_word returned gives back the
\* grid place_word was applied to, cell for cell, and changes no cell outside
\* the change set; where the search undoes a placement, the cells of its
\* change set become EMPTY and every other cell keeps what it held.
PlaceUndoRoundTrip ==
    [][ /\ PlaceStep =>
              LET ch == stack'[Len(stack)].changed
                  back == undo_changes(grid', ch)
              IN  /\ back = grid
                  /\ \A rc \in Cells(size) \ AsSet(ch) :
                         back[rc[1]][rc[2]] = grid'[rc[1]][rc[2]]
        /\ UndoStep =>
              \A rc \in Cells(size) :
                  grid'[rc[1]][rc[2]] =
                      IF rc \in AsSet(Top.changed) THEN EMPTY ELSE grid[rc[1]][rc[2]]
      ]_vars

\* a direct call has undone a placement that shared a letter with the grid:
\* the shared letter is still there, the cell written is EMPTY again
PlaceUndoRoundTripWitness ==
    /\ pc = "direct" /\ stack # << >>
    /\ Top.at = "loop"
    /\ \E i \in Top.tried :
          LET p == Top.placements[i]
              w == words[Top.idx + 1]
          IN  /\ \E k \in 0..(Len(w) - 1) :
                    LET rc == SpanCell(p[1], p[2], p[3], k)
                    IN  grid[rc[1]][rc[2]] = w[k + 1]
              /\ \E k \in 0..(Len(w) - 1) :
                    LET rc == SpanCell(p[1], p[2], p[3], k)
                    IN  grid[rc[1]][rc[2]] = EMPTY

\* --------------------------------------------------------------- C13
\* C13: place_word changes only cells of the span that were EMPTY, returns
\* as change set the span coordinates that were EMPTY, each once, and, the
\* word fitting beforehand, leaves the word readable along the span.
PlaceWordFrame ==
    [][ PlaceStep =>
            LET q == placed'[Len(placed')]
                w == words[q.idx + 1]
                span == Run(q, Len(w)) \cap Cells(size)
            IN  /\ \A rc \in Cells(size) :
                       grid'[rc[1]][rc[2]] # grid[rc[1]][rc[2]] =>
                           rc \in span /\ grid[rc[1]][rc[2]] = EMPTY
                /\ AsSet(q.changed) = { rc \in span : grid[rc[1]][rc[2]] = EMPTY }
                /\ Len(q.changed) = Cardinality(AsSet(q.changed))
                /\ CanPlace(grid, size, w, q.r, q.c, q.d) =>
                       Reads(grid', size, w, q.r, q.c, q.d)
      ]_vars

\* a direct call has placed a two-letter word over one letter already in the
\* grid and one EMPTY cell, other letters lying outside the span
PlaceWordFrameWitness ==
    /\ pc = "direct" /\ Len(stack) >= 2
    /\ Top.at = "entry"
    /\ LET f == stack[Len(stack) - 1]
           q == placed[Len(placed)]
       IN  /\ Len(words[f.idx + 1]) = 2
           /\ Len(f.changed) = 1
           /\ \E rc \in Cells(size) \ Run(q, 2) : grid[rc[1]][rc[2]] # EMPTY

\* --------------------------------------------------------------- C14
\* the triples over every cell and the directions D from which w can go in g
FitTriples(g, w, D) ==
    { t \in (0..(size - 1)) \X (0..(size - 1)) \X D :
          CanPlace(g, size, w, t[1], t[2], t[3]) }

FirstSuccess ==
    [][ (InSearch /\ ret = "true") =>
            /\ ret' = "true"
            /\ placed' = placed
            /\ stack # << >> =>
                  /\ Top.at = "call"
                  /\ stack' = Pop
                  /\ grid' = grid
                  /\ rng' = rng
                  /\ pc' = pc
            /\ stack = << >> => pc' = "done"
      ]_vars

\* a call is about to return success after an earlier candidate of its own
\* failed and was undone, with candidates it has not tried
FirstSuccessWitness ==
    /\ pc = "search" /\ stack # << >>
    /\ ret = "true"
    /\ Top.at = "call"
    /\ Top.tried # {}
    /\ Untried(Top) \ { Top.cur } # {}

\* --------------------------------------------------------------- C16
\* the calls of backtrack_place_words in progress have the indices 0, 1, 2,
\* ... from the outermost on, none above len(words)
DepthBounded ==
    /\ \A j \in 1..Len(stack) : stack[j].idx = j - 1 /\ stack[j].idx <= Len(words)
    /\ Len(stack) <= Len(words) + 1

SearchStarted == pc = "search" /\ stack # << >>

SearchReturned == stack = << >> /\ ret \in { "true", "false" }

\* C16: the search, once called, returns, with success or with failure; the
\* index of the outermost call is 0, each recursive call has the index of its
\* caller plus one, and no index exceeds len(words), so that at most
\* len(words) recursive calls are in progress below the outermost.
SearchTerminates == []DepthBounded /\ (SearchStarted ~> SearchReturned)

\* the recursion is at its deepest for a list of two words of two letters
SearchTerminatesWitness ==
    /\ pc = "search"
    /\ Len(words) = 2
    /\ Len(words[2]) = 2
    /\ Len(stack) = Len(words) + 1
    /\ Top.idx = Len(words)

\* --------------------------------------------------------------- C17
\* the number of entries of the list l that are w
Count(l, w) == Cardinality({ i \in 1..Len(l) : l[i] = w })

\* C17: the list the search works on holds the normalized input words that
\* are not blank, each as often as the input does, none of them empty, in
\* non-increasing order of length; a word has a placement applied only while
\* every longer word has one applied before it.
LongestFirst ==
    pc \in { "search", "done", "error" } =>
        /\ LET normalized == cleaned(in_words)
           IN  \A w \in AsSet(words) \cup AsSet(normalized) :
                   Count(words, w) = Count(normalized, w)
        /\ \A k \in 1..Len(words) : words[k] # << >>
        /\ \A k \in 1..(Len(words) - 1) : Len(words[k]) >= Len(words[k + 1])
        /\ \A j \in 1..Len(placed) :
               \A k \in 1..Len(words) :
                   Len(words[k]) > Len(words[placed[j].idx + 1]) =>
                       \E i \in 1..(j - 1) : placed[i].idx = k - 1

\* a grid is returned for two words of different lengths that the input
\* listed shortest first, a blank entry with them
LongestFirstWitness ==
    /\ pc = "done"
    /\ Len(words) = 2
    /\ Len(in_words) = 3
    /\ Len(words[1]) > Len(words[2])
    /\ cleaned(in_words) # words
    /\ Len(placed) = 2

\* --------------------------------------------------------------- C18
\* the placement the call of frame f has applied and not undone
Active(f) ==
    [r |-> f.placements[f.cur][1], c |-> f.placements[f.cur][2],
     d |-> f.placements[f.cur][3]]

\* C18: when backtrack_place_words is entered at index k under
\* generate_wordsearch, the k calls above it hold one applied placement
\* each, for words[0..k-1] in this order; their change sets are pairwise
\* disjoint and together are exactly the cells that are not EMPTY; the grid
\* reads each of these words along its placement.
SearchInvariant ==
    (pc = "search" /\ stack # << >> /\ Top.at = "entry") =>
        LET k == Top.idx
        IN  /\ Len(stack) = k + 1
            /\ \A j \in 1..k :
                   /\ stack[j].idx = j - 1
                   /\ stack[j].at = "call"
                   /\ stack[j].cur \in 1..Len(stack[j].placements)
                   /\ Reads(grid, size, words[j],
                            Active(stack[j]).r, Active(stack[j]).c, Active(stack[j]).d)
            /\ \A i \in 1..k : \A j \in 1..k :
                   i # j => AsSet(stack[i].changed) \cap AsSet(stack[j].changed) = {}
            /\ UNION { AsSet(stack[j].changed) : j \in 1..k }
                   = { rc \in Cells(size) : grid[rc[1]][rc[2]] # EMPTY }

\* the search is entered at index 2 with two placements that cross on a
\* cell, after a candidate was undone, a cell of the grid still EMPTY
SearchInvariantWitness ==
    /\ pc = "search" /\ Len(stack) = 3
    /\ Top.at = "entry" /\ Top.idx = 2
    /\ Len(words) = 3
    /\ stack[2].tried # {}
    /\ Len(stack[2].changed) < Len(words[2])
    /\ \E rc \in Cells(size) : grid[rc[1]][rc[2]] = EMPTY

\* --------------------------------------------------------------- C19
\* C19: whenever the for loop is about to take a candidate, the grid is the
\* grid the call was entered with, and every candidate not yet tried can
\* still be placed on it: its span is in bounds and each cell of the span
\* is EMPTY or holds the word's letter.
CandidatesStayValid ==
    (InSearch /\ stack # << >> /\ Top.at = "loop") =>
        /\ grid = Top.entry
        /\ \A i \in Untried(Top) :
               CanPlace(grid, size, words[Top.idx + 1],
                        Top.placements[i][1], Top.placements[i][2], Top.placements[i][3])

\* a call below the outermost is about to take a further candidate after one
\* of its candidates was placed and undone
CandidatesStayValidWitness ==
    /\ InSearch /\ Len(stack) >= 2
    /\ Top.at = "loop"
    /\ Top.tried # {}
    /\ Untried(Top) # {}
    /\ \E rc \in Cells(size) : grid[rc[1]][rc[2]] # EMPTY

====
